---- MODULE Spec2Model ----
(***************************************************************************)
(* Model of the mcp-blueprint tool-invocation protocol: the three tool     *)
(* handlers of the two servers (src/src/mcp_devops/server.py and           *)
(* src/mcp_server.py) and the assist() orchestration of the three clients  *)
(* (src/mcp_client_http.py, src/src/mcp_devops/client.py and               *)
(* src/mcp_client.py).                                                     *)
(*                                                                         *)
(* A Python str is a sequence of fragments (a fragment is an atomic piece  *)
(* of text); "" is << >>, an f-string or a join is the concatenation of    *)
(* its pieces.  None is the one-fragment value None below, which no text   *)
(* of the model equals.                                                    *)
(***************************************************************************)
EXTENDS Integers, Sequences, FiniteSets, TLC

VARIABLES
    caller,     \* how the caller drives the coroutines: "sequential" | "gather" | "main"
    server,     \* the server script the sessions talk to
    envKey,     \* os.getenv of the API key: None, "" or the key
    self,       \* per assistant: its class and its attributes
    co,         \* per coroutine slot: the operation it runs and its locals
    wire,       \* per assistant: the channel of its context and the call_tool
                \* requests sent and not yet answered
    handled     \* the last tool execution of the server (handler, input, outcome)

vars == <<caller, server, envKey, self, co, wire, handled>>

-----------------------------------------------------------------------------
(* Bounds of the model *)

\* longest tool_calls list (OpenAI) / content list (Anthropic) of one reply
MaxIntents == 2

-----------------------------------------------------------------------------
(* Python values *)

None == <<"None">>

Str(fragment) == <<fragment>>

\* truthiness of an Optional[str]: None and "" are falsy
Truthy(s) == s # None /\ s # << >>

\* a bug: the default is returned whatever a is
OrDefault(a, b) == b

\* `a or b`
Or(a, b) == IF Truthy(a) THEN a ELSE b

RECURSIVE Join(_)
\* "".join(list_of_str)
Join(parts) == IF parts = << >> THEN << >> ELSE Head(parts) \o Join(Tail(parts))

\* s[-n:] on a sequence
LastN(s, n) == IF Len(s) <= n THEN s ELSE SubSeq(s, Len(s) - n + 1, Len(s))

-----------------------------------------------------------------------------
(* The servers: src/src/mcp_devops/server.py and src/mcp_server.py *)

Servers == {"server.py", "mcp_server.py"}

ToolNames == <<"search_repo", "run_tests", "generate_release_notes">>

\* the parameters each handler declares: name -> required?
Parameters(srv, name) ==
    CASE name = "search_repo" -> [keyword |-> TRUE, root |-> FALSE]
      [] name = "run_tests" -> [test_path |-> FALSE]
      [] name = "generate_release_notes" ->
            IF srv = "server.py"
            THEN [since_tag |-> FALSE, max_commits |-> FALSE]
            ELSE [since_tag |-> FALSE]

Descriptor(srv, name) ==
    [name |-> name,
     description |-> <<"doc of ", name>>,
     inputSchema |-> Parameters(srv, name)]

\* the return annotation of each handler: List[str], Dict[str, Any] / dict, str
DeclaredShape(name) ==
    CASE name = "search_repo" -> "list"
      [] name = "run_tests" -> "dict"
      [] name = "generate_release_notes" -> "str"

\* a bug: the descriptors are listed by name, not in registration order
RegistryByName(srv) ==
    << Descriptor(srv, "generate_release_notes"), Descriptor(srv, "run_tests"),
       Descriptor(srv, "search_repo") >>

\* the registry after the @mcp.tool() decorators have run, in registration order
Registry(srv) == [i \in 1..Len(ToolNames) |-> Descriptor(srv, ToolNames[i])]

(* Payloads: a handler returns a list of str, a dict or a str. *)
NoDict == [keys |-> {}, returncode |-> 0, failures |-> << >>, raw |-> << >>, success |-> FALSE]

ListPayload(l) == [shape |-> "list", list |-> l, dict |-> NoDict, str |-> << >>]
DictPayload(d) == [shape |-> "dict", list |-> << >>, dict |-> d, str |-> << >>]
StrPayload(s) == [shape |-> "str", list |-> << >>, dict |-> NoDict, str |-> s]

Return(payload) == [raised |-> FALSE, hangs |-> FALSE, exc |-> "", payload |-> payload]
Raise(exc) == [raised |-> TRUE, hangs |-> FALSE, exc |-> exc, payload |-> StrPayload(<< >>)]
\* the handler is blocked in a call that has no bound
Hang == [raised |-> FALSE, hangs |-> TRUE, exc |-> "", payload |-> StrPayload(<< >>)]

(* What the collaborators of a handler can do.  kind "fault" marks a        *)
(* handler-internal failure (invalid repository, crash, file not found,    *)
(* timeout).                                                               *)

\* the tree of the repository: path, the lower-cased words of its content,
\* and whether data_stream.read() works
RepoTree ==
    << [path |-> "README.md", words |-> {"mcp", "todo"}, blob |-> TRUE, readable |-> TRUE],
       [path |-> "src", words |-> {}, blob |-> FALSE, readable |-> FALSE],
       [path |-> "logo.png", words |-> {"mcp"}, blob |-> TRUE, readable |-> FALSE],
       [path |-> "setup.py", words |-> {"todo"}, blob |-> TRUE, readable |-> TRUE] >>

Lower(word) ==
    CASE word = "MCP" -> "mcp"
      [] word = "TODO" -> "todo"
      [] OTHER -> word

GitEnvs ==
    { [tool |-> "git", kind |-> "ok", what |-> "repo"],
      [tool |-> "git", kind |-> "fault", what |-> "InvalidGitRepositoryError"],
      [tool |-> "git", kind |-> "fault", what |-> "NoSuchPathError"] }

LogEnvs ==
    { [tool |-> "log", kind |-> "ok", what |-> "commits"],
      [tool |-> "log", kind |-> "ok", what |-> "no commits"],
      [tool |-> "log", kind |-> "fault", what |-> "GitCommandError"],
      [tool |-> "log", kind |-> "fault", what |-> "InvalidGitRepositoryError"],
      [tool |-> "log", kind |-> "fault", what |-> "ValueError"] }

PytestEnvs ==
    { [tool |-> "pytest", kind |-> "ok", what |-> "passed"],
      [tool |-> "pytest", kind |-> "ok", what |-> "failed"],
      [tool |-> "pytest", kind |-> "fault", what |-> "TimeoutExpired"],
      [tool |-> "pytest", kind |-> "fault", what |-> "FileNotFoundError"],
      [tool |-> "pytest", kind |-> "fault", what |-> "PermissionError"] }

EnvsOf(name) ==
    CASE name = "search_repo" -> GitEnvs
      [] name = "run_tests" -> PytestEnvs
      [] name = "generate_release_notes" -> LogEnvs
      [] OTHER -> {}

-----------------------------------------------------------------------------
(* search_repo *)

\* keyword.lower() in content.lower(); the empty keyword is in every content
Contains(words, keyword) == \A i \in 1..Len(keyword) : Lower(keyword[i]) \in words

\* the loop over repo.tree().traverse(): blobs that can be read and contain
\* the keyword, case-insensitively; unreadable ones are skipped
RECURSIVE Matches(_, _)
Matches(tree, keyword) ==
    IF tree = << >> THEN << >>
    ELSE LET item == Head(tree)
             rest == Matches(Tail(tree), keyword)
         IN IF item.blob /\ item.readable /\ Contains(item.words, keyword)
            THEN <<Str(item.path)>> \o rest
            ELSE rest

\* src/src/mcp_devops/server.py search_repo
SearchRepo(keyword, root, env) ==
    CASE env.what = "repo" -> Return(ListPayload(Matches(RepoTree, keyword)))
      [] env.what = "InvalidGitRepositoryError" ->
            Return(ListPayload(<< <<"Error: ">> \o root \o <<" is not a valid git repository">> >>))
      [] OTHER -> Return(ListPayload(<< <<"Error: ", env.what>> >>))

\* src/mcp_server.py search_repo: no try around git.Repo(root)
SearchRepoLegacy(keyword, root, env) ==
    IF env.what = "repo"
    THEN Return(ListPayload(Matches(RepoTree, keyword)))
    ELSE Raise(env.what)

-----------------------------------------------------------------------------
(* run_tests *)

RawChars == 1000
LegacyRawChars == 500

\* stdout + stderr of the pytest subprocess, line by line
PytestOutput(env) ==
    IF env.what = "passed"
    THEN << [text |-> "2 passed in 0.01s", stripped |-> "2 passed in 0.01s",
             startsE |-> FALSE, hasFAILED |-> FALSE] >>
    ELSE << [text |-> "E   assert 1 == 2 ", stripped |-> "E   assert 1 == 2",
             startsE |-> TRUE, hasFAILED |-> FALSE],
            [text |-> "FAILED tests/test_a.py::test_x", stripped |-> "FAILED tests/test_a.py::test_x",
             startsE |-> FALSE, hasFAILED |-> TRUE],
            [text |-> "1 failed, 1 passed in 0.02s", stripped |-> "1 failed, 1 passed in 0.02s",
             startsE |-> FALSE, hasFAILED |-> FALSE] >>

PytestReturncode(env) == IF env.what = "passed" THEN 0 ELSE 1

RECURSIVE FailureLines(_, _)
\* the lines kept as failures, stripped; withFailed: also the lines holding FAILED
FailureLines(output, withFailed) ==
    IF output = << >> THEN << >>
    ELSE LET line == Head(output)
             rest == FailureLines(Tail(output), withFailed)
         IN IF line.startsE \/ (withFailed /\ line.hasFAILED)
            THEN <<Str(line.stripped)>> \o rest
            ELSE rest

\* output[-chars:]; a line of the model's output stands for 500 characters
Raw(output, chars) == LastN([i \in 1..Len(output) |-> output[i].text], chars \div 500)

\* a bug: the failure is reported as a bare message
TestFailureAsText(message) == Return(StrPayload(message))

\* the dict the except branches of run_tests return
TestFailure(message) ==
    Return(DictPayload([keys |-> {"returncode", "failures", "raw", "success"},
                        returncode |-> -1, failures |-> <<message>>,
                        raw |-> << >>, success |-> FALSE]))

\* src/src/mcp_devops/server.py run_tests
RunTests(test_path, env) ==
    CASE env.kind = "ok" ->
            Return(DictPayload([keys |-> {"returncode", "failures", "raw", "success"},
                                returncode |-> PytestReturncode(env),
                                failures |-> FailureLines(PytestOutput(env), TRUE),
                                raw |-> Raw(PytestOutput(env), RawChars),
                                success |-> PytestReturncode(env) = 0]))
      [] env.what = "TimeoutExpired" ->
            TestFailure(Str("Test execution timed out after 5 minutes"))
      [] env.what = "FileNotFoundError" ->
            TestFailure(Str("pytest not found. Please install pytest."))
      [] OTHER -> TestFailure(<<"Error running tests: ", env.what>>)

\* src/mcp_server.py run_tests: subprocess.run without timeout and without try
RunTestsLegacy(test_path, env) ==
    CASE env.kind = "ok" ->
            Return(DictPayload([keys |-> {"returncode", "failures", "raw"},
                                returncode |-> PytestReturncode(env),
                                failures |-> FailureLines(PytestOutput(env), FALSE),
                                raw |-> Raw(PytestOutput(env), LegacyRawChars),
                                success |-> FALSE]))
      [] env.what = "TimeoutExpired" -> Hang
      [] OTHER -> Raise(env.what)

-----------------------------------------------------------------------------
(* generate_release_notes *)

\* the commits reachable from HEAD, newest first; the tag v1.0.0 is on the oldest
HeadLog ==
    << [message |-> <<"Add HTTP client", "", "Works around stdio issues">>,
        hexsha |-> <<"c", "3", "a", "f", "0", "1", "b", "9", "e">>],
       [message |-> <<"Fix tests">>,
        hexsha |-> <<"b", "2", "7", "7", "d", "4", "4", "0", "a">>],
       [message |-> <<"Initial commit">>,
        hexsha |-> <<"a", "1", "0", "0", "5", "e", "e", "d", "2">>] >>

ShaChars == 7
DefaultMaxCommits == 10
LegacyMaxCommits == 10

FirstN(s, n) == IF Len(s) <= n THEN s ELSE SubSeq(s, 1, n)

Reversed(s) == [i \in 1..Len(s) |-> s[Len(s) + 1 - i]]

\* repo.iter_commits(f"{since_tag}..HEAD") / repo.iter_commits("HEAD", max_count=n)
Commits(since_tag, max_commits, env) ==
    IF env.what = "no commits" THEN << >>
    ELSE IF Truthy(since_tag) THEN FirstN(HeadLog, Len(HeadLog) - 1)
    ELSE FirstN(HeadLog, max_commits)

RECURSIVE JoinWith(_, _)
\* sep.join(lines)
JoinWith(sep, lines) ==
    IF lines = << >> THEN << >>
    ELSE IF Len(lines) = 1 THEN Head(lines)
    ELSE Head(lines) \o sep \o JoinWith(sep, Tail(lines))

NoteLine(commit) ==
    <<"- ", Head(commit.message), " ([">> \o FirstN(commit.hexsha, ShaChars) \o <<"])">>

NoteLineLegacy(commit) ==
    <<"- ">> \o JoinWith(Str("\n"), [i \in 1..Len(commit.message) |-> Str(commit.message[i])])
        \o <<" (#">> \o FirstN(commit.hexsha, ShaChars) \o <<")">>

\* src/src/mcp_devops/server.py generate_release_notes
GenerateReleaseNotes(since_tag, max_commits, env) ==
    CASE env.what = "InvalidGitRepositoryError" -> Return(StrPayload(Str("Error: Not a git repository")))
      [] env.what = "GitCommandError" /\ Truthy(since_tag) ->
            Return(StrPayload(<<"Error: Tag '">> \o since_tag \o <<"' not found">>))
      [] env.kind = "fault" ->
            Return(StrPayload(<<"Error generating release notes: ", env.what>>))
      [] OTHER ->
            LET commits == Commits(since_tag, max_commits, env)
            IN IF commits = << >>
               THEN Return(StrPayload(Str("No commits found for release notes")))
               ELSE Return(StrPayload(JoinWith(Str("\n"),
                        << Str("# Release Notes\n"),
                           <<"Generated from ", ToString(Len(commits)), " commit(s)\n">> >>
                        \o [i \in 1..Len(commits) |-> NoteLine(Reversed(commits)[i])])))

\* src/mcp_server.py generate_release_notes: no try, no max_commits parameter
GenerateReleaseNotesLegacy(since_tag, env) ==
    IF env.kind = "fault" THEN Raise(env.what)
    ELSE LET commits == Commits(since_tag, LegacyMaxCommits, env)
         IN Return(StrPayload(JoinWith(Str("\n"),
                [i \in 1..Len(commits) |-> NoteLineLegacy(Reversed(commits)[i])])))

-----------------------------------------------------------------------------
(* The tool executor: the boundary @mcp.tool() puts around a handler *)

\* a dict of arguments is a set of <<name, value>> pairs, the value a str
Keys(d) == {p[1] : p \in d}

Get(d, k, default) == IF k \in Keys(d) THEN (CHOOSE p \in d : p[1] = k)[2] ELSE default

\* int(text) for the numbers the model sends
IntOf(text) ==
    CASE text = Str("1") -> 1
      [] text = Str("2") -> 2
      [] OTHER -> 5

Registered(srv, name) == \E i \in 1..Len(Registry(srv)) : Registry(srv)[i].name = name

\* the arguments are validated against the model built from the handler's
\* signature: a parameter without default must be present; a key the
\* signature does not declare is not an error, it is left out of the call
ValidArguments(srv, name, arguments) ==
    LET schema == Parameters(srv, name)
    IN \A k \in DOMAIN schema : schema[k] => k \in Keys(arguments)

\* the handler bound to name, called with the arguments and the defaults of its signature
Handler(srv, name, arguments, env) ==
    CASE name = "search_repo" ->
            IF srv = "server.py"
            THEN SearchRepo(Get(arguments, "keyword", << >>), Get(arguments, "root", Str(".")), env)
            ELSE SearchRepoLegacy(Get(arguments, "keyword", << >>), Get(arguments, "root", Str(".")), env)
      [] name = "run_tests" ->
            IF srv = "server.py"
            THEN RunTests(Get(arguments, "test_path", Str("tests")), env)
            ELSE RunTestsLegacy(Get(arguments, "test_path", Str("tests")), env)
      [] OTHER ->
            IF srv = "server.py"
            THEN GenerateReleaseNotes(Get(arguments, "since_tag", << >>),
                    IF "max_commits" \in Keys(arguments)
                    THEN IntOf(Get(arguments, "max_commits", << >>))
                    ELSE DefaultMaxCommits, env)
            ELSE GenerateReleaseNotesLegacy(Get(arguments, "since_tag", << >>), env)

\* json.dumps of the dict run_tests returns
DumpDict(d) ==
    <<"{\"returncode\": ", ToString(d.returncode), ", \"failures\": [">>
        \o JoinWith(Str(", "), d.failures) \o <<"], \"raw\": \"">> \o d.raw \o <<"\"">>
        \o (IF "success" \in d.keys THEN <<", \"success\": ", ToString(d.success)>> ELSE << >>)
        \o <<"}">>

\* the content items of a result: one text item per element of a list, one
\* for a dict, one for a str
Content(payload) ==
    CASE payload.shape = "list" -> payload.list
      [] payload.shape = "dict" -> <<DumpDict(payload.dict)>>
      [] OTHER -> <<payload.str>>

\* a Tool Invocation Result: tagged isError or not; ran tells whether the
\* handler was invoked, hangs that it never returned
ErrorResult(text) ==
    [ran |-> FALSE, hangs |-> FALSE, isError |-> TRUE, content |-> <<text>>,
     shape |-> "str", payload |-> StrPayload(<< >>)]

\* a bug: a name that is not registered falls back to a registered handler
ExecuteWithFallback(srv, name, arguments, env) ==
    IF ~Registered(srv, name)
    THEN LET out == RunTests(Str("tests"), env)
         IN [ran |-> TRUE, hangs |-> FALSE, isError |-> FALSE,
             content |-> Content(out.payload),
             shape |-> out.payload.shape, payload |-> out.payload]
    ELSE IF ~ValidArguments(srv, name, arguments)
    THEN ErrorResult(<<"Error executing tool ", name, ": invalid arguments">>)
    ELSE LET out == Handler(srv, name, arguments, env)
         IN IF out.raised
            THEN [ErrorResult(<<"Error executing tool ", name, ": ", out.exc>>) EXCEPT !.ran = TRUE]
            ELSE [ran |-> TRUE, hangs |-> out.hangs, isError |-> FALSE,
                  content |-> Content(out.payload),
                  shape |-> out.payload.shape, payload |-> out.payload]

\* the execution of a call_tool request: the handler is looked up by name,
\* the arguments are validated, the handler is called; what the handler
\* raises becomes an error result
Execute(srv, name, arguments, env) ==
    IF ~Registered(srv, name) THEN ErrorResult(<<"Unknown tool: ", name>>)
    ELSE IF ~ValidArguments(srv, name, arguments)
    THEN ErrorResult(<<"Error executing tool ", name, ": invalid arguments">>)
    ELSE LET out == Handler(srv, name, arguments, env)
         IN IF out.raised
            THEN [ErrorResult(<<"Error executing tool ", name, ": ", out.exc>>) EXCEPT !.ran = TRUE]
            ELSE [ran |-> TRUE, hangs |-> out.hangs, isError |-> FALSE,
                  content |-> Content(out.payload),
                  shape |-> out.payload.shape, payload |-> out.payload]

\* the collaborator outcomes a call of name can meet; an unregistered name
\* reaches no handler
EnvsFor(srv, name) ==
    IF Registered(srv, name) THEN EnvsOf(name)
    ELSE {[tool |-> "none", kind |-> "ok", what |-> "no handler"]}

\* str(result) of a CallToolResult
StrOfResult(result) == <<"meta=None content=[] isError=", ToString(result.isError)>>

-----------------------------------------------------------------------------
(* The clients *)

HTTP == "mcp_client_http.PRAssistantHTTP"
CLAUDE == "mcp_devops.client.PRAssistant"
STDIO == "mcp_client.PRAssistant"
Classes == {HTTP, CLAUDE, STDIO}

Assistants == {1, 2}
Slots == {1, 2}

Queries == {Str("Search for files containing 'MCP' and run the tests")}

\* the queries of a caller that runs two assist() together, one per coroutine
GatherQueries == <<Str("Run the tests"), Str("Search for files containing 'MCP'")>>

QueriesOf(mode, r) == IF mode = "gather" THEN {GatherQueries[r]} ELSE Queries

(* The replies of the reasoning service.  An OpenAI message has a content  *)
(* (text) and tool_calls; an Anthropic response has a list of parts.       *)

JsonKeyword == Str("{\"keyword\": \"MCP\"}")
JsonEmpty == Str("{}")
JsonBad == Str("{\"keyword\": ")
JsonMaxCommits == Str("{\"max_commits\": 5}")

\* json.loads
JsonLoads(text) ==
    CASE text = JsonKeyword -> [ok |-> TRUE, value |-> {<<"keyword", Str("MCP")>>}]
      [] text = JsonEmpty -> [ok |-> TRUE, value |-> {}]
      [] text = JsonMaxCommits -> [ok |-> TRUE, value |-> {<<"max_commits", Str("5")>>}]
      [] OTHER -> [ok |-> FALSE, value |-> {}]

\* the keys of a dict in the order repr() shows them
KeyOrder == <<"keyword", "root", "test_path", "since_tag", "max_commits">>

\* str(arguments) of a dict
ReprDict(d) ==
    <<"{">> \o Join([i \in 1..Len(KeyOrder) |->
                IF KeyOrder[i] \in Keys(d)
                THEN <<"'", KeyOrder[i], "': '">> \o Get(d, KeyOrder[i], << >>) \o <<"' ">>
                ELSE << >>]) \o <<"}">>

FunctionCall(name, json) ==
    [type |-> "function", text |-> << >>, name |-> name, arguments |-> json, input |-> {}]
ToolUse(name, input) ==
    [type |-> "tool_use", text |-> << >>, name |-> name, arguments |-> << >>, input |-> input]
TextPart(text) ==
    [type |-> "text", text |-> text, name |-> "", arguments |-> << >>, input |-> {}]

FinalText == Str("All tests pass; MCP is mentioned in README.md.")
Texts == {FinalText}

\* a tool name no server registers
UnknownTool == "deploy"

\* tool_calls entries an OpenAI reply can hold: a valid call, one that misses
\* the required keyword, one that relies on a default, one with broken JSON,
\* one with max_commits (which mcp_server.py does not declare) and one for a
\* tool that is not registered
FunctionCalls ==
    { FunctionCall("search_repo", JsonKeyword), FunctionCall("search_repo", JsonEmpty),
      FunctionCall("run_tests", JsonEmpty), FunctionCall("run_tests", JsonBad),
      FunctionCall("generate_release_notes", JsonMaxCommits),
      FunctionCall(UnknownTool, JsonEmpty) }

\* parts an Anthropic reply can hold
Parts ==
    { TextPart(FinalText), ToolUse("search_repo", {<<"keyword", Str("MCP")>>}),
      ToolUse("search_repo", {}), ToolUse("run_tests", {}),
      ToolUse("generate_release_notes", {<<"max_commits", Str("5")>>}),
      ToolUse(UnknownTool, {}) }

SeqsUpTo(S, n) == UNION {[1..k -> S] : k \in 0..n}

Message(content, tool_calls) == [text |-> content, tool_calls |-> tool_calls, parts |-> << >>]
Response(parts) == [text |-> None, tool_calls |-> << >>, parts |-> parts]
NoReply == Message(None, << >>)

\* what the reasoning service may answer to a client of class cls; to the
\* queries of a gathering caller it answers with the one tool they ask for
Replies(cls, mode, query) ==
    IF cls = CLAUDE
    THEN IF mode = "gather"
         THEN {Response(<<p>>) : p \in IF query = GatherQueries[1]
                                        THEN {ToolUse("run_tests", {})}
                                        ELSE {ToolUse("search_repo", {<<"keyword", Str("MCP")>>})}}
         ELSE {Response(ps) : ps \in SeqsUpTo(Parts, MaxIntents)}
    ELSE IF mode = "gather"
         THEN {Message(None, <<c>>) : c \in IF query = GatherQueries[1]
                                            THEN {FunctionCall("run_tests", JsonEmpty)}
                                            ELSE {FunctionCall("search_repo", JsonKeyword)}}
         ELSE {Message(t, cs) : t \in Texts \cup {None, << >>}, cs \in SeqsUpTo(FunctionCalls, MaxIntents)}

\* what it may answer to the follow-up request
FinalReplies(mode) ==
    IF mode = "gather"
    THEN {Message(FinalText, << >>)}
    ELSE {Message(t, cs) : t \in Texts \cup {None, << >>},
                           cs \in {<< >>, <<FunctionCall("run_tests", JsonEmpty)>>}}

\* the tool_calls (OpenAI) or the content parts (Anthropic) of a reply
Items(cls, reply) == IF cls = CLAUDE THEN reply.parts ELSE reply.tool_calls

\* the tool-invocation intents of a reply, in its order
Intents(cls, reply) == SelectSeq(Items(cls, reply), LAMBDA it : it.type \in {"function", "tool_use"})

\* the arguments a client passes to call_tool for an intent
ArgumentsOf(it) == IF it.type = "tool_use" THEN it.input ELSE JsonLoads(it.arguments).value

\* a bug: only the first descriptor is passed on
ToolsParamFirstOnly(cls, descriptors) ==
    [i \in 1..1 |->
        IF cls = CLAUDE
        THEN [name |-> descriptors[i].name,
              description |-> descriptors[i].description,
              input_schema |-> descriptors[i].inputSchema]
        ELSE [type |-> "function",
              function |-> [name |-> descriptors[i].name,
                            description |-> descriptors[i].description,
                            parameters |-> descriptors[i].inputSchema]]]

\* a bug: the descriptors are passed on in reverse order
ToolsParamReversed(cls, descriptors) ==
    [i \in 1..Len(descriptors) |->
        LET d == descriptors[Len(descriptors) + 1 - i]
        IN IF cls = CLAUDE
           THEN [name |-> d.name, description |-> d.description, input_schema |-> d.inputSchema]
           ELSE [type |-> "function",
                 function |-> [name |-> d.name, description |-> d.description,
                               parameters |-> d.inputSchema]]]

\* the tools parameter built from list_tools()
ToolsParam(cls, descriptors) ==
    [i \in 1..Len(descriptors) |->
        IF cls = CLAUDE
        THEN [name |-> descriptors[i].name,
              description |-> descriptors[i].description,
              input_schema |-> descriptors[i].inputSchema]
        ELSE [type |-> "function",
              function |-> [name |-> descriptors[i].name,
                            description |-> descriptors[i].description,
                            parameters |-> descriptors[i].inputSchema]]]

UserMessage(content) == [role |-> "user", content |-> content]
AssistantMessage(content) == [role |-> "assistant", content |-> content]

\* f"Called {tool_name}({arguments})"
Called(name, arguments) == <<"Called ", name, "(">> \o ReprDict(arguments) \o <<")">>

\* result.content[0].text if result.content else str(result)
ResultContent(result) ==
    IF result.content # << >> THEN result.content[1] ELSE StrOfResult(result)

(* The locals of a coroutine.  calls and outcomes log the call_tool        *)
(* requests it sent and what came back; requests and replies log its       *)
(* exchanges with the reasoning service.                                   *)
Idle ==
    [op |-> "none", asst |-> 1, pc |-> "idle", query |-> << >>, tools |-> << >>,
     messages |-> << >>, reply |-> NoReply, i |-> 0, final_text |-> << >>,
     result |-> None, exc |-> "", calls |-> << >>, outcomes |-> << >>,
     requests |-> << >>, replies |-> << >>, cls |-> "", api_key |-> None]

Raised(c, exc) == [c EXCEPT !.pc = "raised", !.exc = exc]
Returned(c, value) == [c EXCEPT !.pc = "returned", !.result = value]

\* a reasoning request: the conversation and, when given, the tools
Request(messages, withTools, tools) ==
    [messages |-> messages, withTools |-> withTools, tools |-> tools]

-----------------------------------------------------------------------------
(* assist(): the loop over the tool calls of the first reply *)

\* f"\n[Tool: {tool_name}]\n{result_content}\n"
ToolBlock(name, result_content) == <<"\n[Tool: ", name, "]\n">> \o result_content \o <<"\n">>

\* f"\n[Tool {tool_name} failed: {e}]\n"
FailedBlock(name, e) == <<"\n[Tool ", name, " failed: ", e, "]\n">>

\* f"\n[Tool {tool_name} result]\n{result_content}\n"
ResultBlock(name, result_content) == <<"\n[Tool ", name, " result]\n">> \o result_content \o <<"\n">>

\* the coroutine c suspends in `await self.session.call_tool(...)` for item j
Await(c, j, it) ==
    [c EXCEPT !.pc = "call_tool", !.i = j,
              !.calls = Append(@, [name |-> it.name, arguments |-> ArgumentsOf(it)])]

\* runs the loop from item j up to the next await, the end of the loop
\* (pc "loop_done") or an exception that leaves assist()
RECURSIVE Loop(_, _, _, _)
Loop(cls, c, j, hasSession) ==
    LET items == Items(cls, c.reply)
    IN IF j > Len(items) THEN [c EXCEPT !.pc = "loop_done", !.i = j]
       ELSE LET it == items[j]
            IN CASE cls = HTTP ->
                        IF it.type # "function" THEN Loop(cls, c, j + 1, hasSession)
                        ELSE IF ~JsonLoads(it.arguments).ok THEN Raised([c EXCEPT !.i = j], "JSONDecodeError")
                        ELSE Await(c, j, it)
                 [] cls = STDIO ->
                        IF ~JsonLoads(it.arguments).ok THEN Raised([c EXCEPT !.i = j], "JSONDecodeError")
                        ELSE Await(c, j, it)
                 [] OTHER ->
                        IF it.type = "text"
                        THEN Loop(cls, [c EXCEPT !.final_text = Append(@, it.text)], j + 1, hasSession)
                        ELSE IF it.type # "tool_use" THEN Loop(cls, c, j + 1, hasSession)
                        ELSE IF ~hasSession
                        THEN Loop(cls, [c EXCEPT !.final_text =
                                            Append(@, FailedBlock(it.name, "AttributeError"))],
                                  j + 1, hasSession)
                        ELSE Await(c, j, it)

\* a bug: the loop starts at the second item
EnterLoopFromSecond(cls, c, hasSession) == Loop(cls, c, 2, hasSession)

\* _execute_tool_calls (HTTP) / the loop of assist() (stdio clients), entered
\* with the first reply
EnterLoop(cls, c, hasSession) ==
    CASE cls = HTTP ->
            IF ~hasSession THEN [c EXCEPT !.pc = "loop_done"]
            ELSE Loop(cls, c, 1, hasSession)
      [] cls = STDIO ->
            Loop(cls, IF Truthy(c.reply.text)
                      THEN [c EXCEPT !.final_text = Append(@, c.reply.text)]
                      ELSE c, 1, hasSession)
      [] OTHER -> Loop(cls, c, 1, hasSession)

\* a bug: the HTTP client records the call and drops its result
AfterResultNoResultEntry(cls, c, result, hasSession) ==
    LET it == Items(cls, c.reply)[c.i]
        logged == [c EXCEPT !.outcomes = Append(@, [tag |-> IF result.isError THEN "error" ELSE "ok",
                                                    content |-> ResultContent(result)])]
    IN IF cls = HTTP
       THEN Loop(cls, [logged EXCEPT !.messages =
                            Append(@, AssistantMessage(Called(it.name, ArgumentsOf(it))))],
                 c.i + 1, hasSession)
       ELSE Loop(cls, [logged EXCEPT !.final_text =
                            Append(@, ToolBlock(it.name, ResultContent(result)))],
                 c.i + 1, hasSession)

\* a bug: the HTTP client keeps only the latest call and result
AfterResultRewrites(cls, c, result, hasSession) ==
    LET it == Items(cls, c.reply)[c.i]
        logged == [c EXCEPT !.outcomes = Append(@, [tag |-> IF result.isError THEN "error" ELSE "ok",
                                                    content |-> ResultContent(result)])]
    IN CASE cls = HTTP ->
                Loop(cls, [logged EXCEPT !.messages =
                                << AssistantMessage(Called(it.name, ArgumentsOf(it))),
                                   UserMessage(ResultContent(result)) >>],
                     c.i + 1, hasSession)
         [] cls = STDIO ->
                Loop(cls, [logged EXCEPT !.final_text =
                                Append(@, ResultBlock(it.name, ResultContent(result)))],
                     c.i + 1, hasSession)
         [] OTHER ->
                Loop(cls, [logged EXCEPT !.final_text =
                                Append(@, ToolBlock(it.name, ResultContent(result)))],
                     c.i + 1, hasSession)

\* the code that follows a call_tool that returned result
AfterResult(cls, c, result, hasSession) ==
    LET it == Items(cls, c.reply)[c.i]
        logged == [c EXCEPT !.outcomes = Append(@, [tag |-> IF result.isError THEN "error" ELSE "ok",
                                                    content |-> ResultContent(result)])]
    IN CASE cls = HTTP ->
                Loop(cls, [logged EXCEPT !.messages =
                                @ \o << AssistantMessage(Called(it.name, ArgumentsOf(it))),
                                        UserMessage(ResultContent(result)) >>],
                     c.i + 1, hasSession)
         [] cls = STDIO ->
                Loop(cls, [logged EXCEPT !.final_text =
                                Append(@, ResultBlock(it.name, ResultContent(result)))],
                     c.i + 1, hasSession)
         [] OTHER ->
                Loop(cls, [logged EXCEPT !.final_text =
                                Append(@, ToolBlock(it.name, ResultContent(result)))],
                     c.i + 1, hasSession)

\* a bug: a call that raised leaves no block in the answer
AfterRaiseDropsBlock(cls, c, e, hasSession) ==
    IF cls = CLAUDE
    THEN Loop(cls, [c EXCEPT !.outcomes = Append(@, [tag |-> "raised", content |-> Str(e)])],
              c.i + 1, hasSession)
    ELSE Raised(c, e)

\* a bug: a call that raised is tried again
AfterRaiseRetries(cls, c, e, hasSession) ==
    IF cls = CLAUDE
    THEN Loop(cls, [c EXCEPT !.outcomes = Append(@, [tag |-> "raised", content |-> Str(e)])],
              c.i, hasSession)
    ELSE Raised(c, e)

\* the code that follows a call_tool that raised e
AfterRaise(cls, c, e, hasSession) ==
    IF cls = CLAUDE
    THEN Loop(cls, [c EXCEPT !.final_text = Append(@, FailedBlock(Items(cls, c.reply)[c.i].name, e)),
                             !.outcomes = Append(@, [tag |-> "raised", content |-> Str(e)])],
              c.i + 1, hasSession)
    ELSE Raised(c, e)

\* a bug: the HTTP client returns the content of the first reply even when
\* the reply asks for tools
AfterReplySkipsTools(cls, c, reply, hasSession) ==
    LET got == [c EXCEPT !.reply = reply, !.replies = Append(@, reply)]
    IN IF cls = HTTP
       THEN Returned(got, Or(reply.text, Str("No response")))
       ELSE EnterLoop(cls, got, hasSession)

\* the first reply has arrived: run assist() up to its next await or its end
AfterReply(cls, c, reply, hasSession) ==
    LET got == [c EXCEPT !.reply = reply, !.replies = Append(@, reply)]
    IN IF cls = HTTP /\ reply.tool_calls = << >>
       THEN Returned(got, Or(reply.text, Str("No response")))
       ELSE EnterLoop(cls, got, hasSession)

\* a bug: the follow-up request carries the query alone
FollowUpQueryOnly(c) == [c EXCEPT !.requests = Append(@, Request(<<c.messages[1]>>, FALSE, << >>))]

\* the follow-up request of the HTTP client: the conversation, no tools
FollowUp(c) == [c EXCEPT !.requests = Append(@, Request(c.messages, FALSE, << >>))]

\* a bug: the failure is swallowed and what was collected is returned
ReasoningFailedSwallowed(c) == Returned(c, Join(c.final_text))

\* the reasoning-service call raised: no client catches it
ReasoningFailed(c) == Raised(c, "APIError")

\* the end of assist() after the loop, for a stdio client
JoinFinalText(c) == Returned(c, Join(c.final_text))

-----------------------------------------------------------------------------
(* State *)

\* the fields every __init__ assigns before it looks for a key
New(cls, server_script) ==
    [class |-> cls, server_script |-> server_script, session |-> "None", context |-> "None",
     openai |-> FALSE, api_key |-> None]

\* no object: the name the constructor's result is bound to is not bound yet
Unbound == New("", None)

\* values of the api_key parameter and of the environment variable
ApiKeys == {None, << >>, Str("sk-param")}
EnvValues == {None, << >>, Str("sk-env")}

\* the variable each class reads its key from
KeyName(cls) == IF cls = CLAUDE THEN "ANTHROPIC_API_KEY" ELSE "OPENAI_API_KEY"

MissingKey(cls) ==
    IF cls = CLAUDE
    THEN <<KeyName(cls), " is required. Set it via environment variable or pass it to the constructor">>
    ELSE <<KeyName(cls), " environment variable is not set. ">>

Constructed(object) == [exc |-> "", message |-> << >>, object |-> object]
Refused(cls) == [exc |-> "ValueError", message |-> MissingKey(cls), object |-> Unbound]

\* a bug: the environment wins over the api_key parameter
PRAssistantInitEnvFirst(cls, server_script, api_key, environ) ==
    LET me == New(cls, server_script)
        key == IF cls = CLAUDE THEN Or(environ, api_key) ELSE environ
    IN IF cls = HTTP THEN Constructed(me)
       ELSE IF ~Truthy(key) THEN Refused(cls)
       ELSE Constructed([me EXCEPT !.openai = TRUE, !.api_key = key])

\* a bug: the HTTP client builds its reasoning client in the constructor
PRAssistantInitEager(cls, server_script, api_key, environ) ==
    LET me == New(cls, server_script)
        key == IF cls = CLAUDE THEN Or(api_key, environ) ELSE environ
    IN IF cls = HTTP THEN Constructed([me EXCEPT !.openai = TRUE, !.api_key = key])
       ELSE IF ~Truthy(key) THEN Refused(cls)
       ELSE Constructed([me EXCEPT !.openai = TRUE, !.api_key = key])

\* __init__ of the three clients: the HTTP client keeps no reasoning client
\* (self.openai = None), the Anthropic client takes `api_key or os.getenv`,
\* the OpenAI stdio client takes os.getenv only
PRAssistantInit(cls, server_script, api_key, environ) ==
    LET me == New(cls, server_script)
        key == IF cls = CLAUDE THEN Or(api_key, environ) ELSE environ
    IN IF cls = HTTP THEN Constructed(me)
       ELSE IF ~Truthy(key) THEN Refused(cls)
       ELSE Constructed([me EXCEPT !.openai = TRUE, !.api_key = key])

\* the api_key arguments a constructor call of the class can carry
ApiKeysOf(cls) == IF cls = CLAUDE THEN ApiKeys ELSE {None}

\* the assistants a program holds: the objects whose constructor returned
Assistant(cls, server_script, environ) ==
    {out.object : out \in {o \in {PRAssistantInit(cls, server_script, k, environ) : k \in ApiKeysOf(cls)} :
                                  o.exc = ""}}

\* the channel behind a context that was just created: not opened; mute tells
\* that the endpoint never answers the handshake; exits tells how often
\* __aexit__ was entered on the context ("none", "once", "again")
NoWire == [channel |-> "none", handshake |-> FALSE, mute |-> FALSE, exits |-> "none",
           pending |-> {}]

NotHandled ==
    [name |-> "", arguments |-> {}, env |-> [tool |-> "none", kind |-> "ok", what |-> "no handler"],
     result |-> ErrorResult(<< >>)]

InitWith(mode) ==
    /\ caller = mode
    /\ server \in (IF mode = "gather" THEN {"server.py"} ELSE Servers)
    /\ envKey \in (IF mode = "gather" THEN {Str("sk-env")} ELSE {None, Str("sk-env")})
    /\ \E cls \in Classes : \E me \in Assistant(cls, Str(server), envKey) :
            self = [a \in Assistants |-> me]
    /\ co = [r \in Slots |-> Idle]
    /\ wire = [a \in Assistants |-> NoWire]
    /\ handled = NotHandled

\* a caller that awaits connect(), assist() and disconnect() one after the
\* other, in any order
Init == InitWith("sequential")

\* the caller is main()
InitMain == InitWith("main")

\* a caller that runs its coroutines together (asyncio.gather)
InitGather == InitWith("gather")

Finished(c) == c.pc \in {"idle", "returned", "raised"}

\* a bug: main() without its finally
MainStepNoFinally(c) ==
    CASE c.op = "none" -> "connect"
      [] c.op = "connect" /\ c.pc = "returned" -> "assist"
      [] c.op = "assist" /\ c.pc = "returned" -> "disconnect"
      [] OTHER -> "exit"

\* main(): try: connect(); assist(query) finally: disconnect().  The
\* operation main() awaits next, given the coroutine c it awaited last
MainStep(c) ==
    CASE c.op = "none" -> "connect"
      [] c.op = "connect" /\ c.pc = "returned" -> "assist"
      [] c.op = "connect" /\ c.pc = "raised" -> "disconnect"
      [] c.op = "assist" /\ Finished(c) -> "disconnect"
      [] OTHER -> "exit"

\* a gathering caller connects its assistants, runs one assist() per
\* coroutine together and disconnects when both are over
GatherAllows(op, r) ==
    CASE op = "connect" -> \A q \in Slots : co[q].op \in {"none", "connect"}
      [] op = "assist" -> /\ co[r].op \in {"none", "connect"}
                          /\ \A q \in Slots : co[q].op # "disconnect"
      [] OTHER -> TRUE

\* the caller may start op in slot r on assistant a
Allowed(op, r, a) ==
    /\ caller # "gather" => r = 1 /\ a = 1
    /\ caller = "main" => MainStep(co[r]) = op
    /\ caller = "gather" => GatherAllows(op, r)

\* the caller may start assist() in slot r on assistant a: a sequential caller
\* has one coroutine and one assistant
CanStart(r, a) ==
    /\ Finished(co[r])
    /\ Allowed("assist", r, a)

\* the caller may start connect() or disconnect(): no caller of the
\* repository runs them beside another coroutine
CanStartAlone(op, r, a) ==
    /\ \A q \in Slots : Finished(co[q])
    /\ r = 1
    /\ Allowed(op, r, a)

Start(op, a) == [Idle EXCEPT !.op = op, !.asst = a]

ClassOf(r) == self[co[r].asst].class

\* a bug: the guard `if not self.session` is missing
HasSessionAlways(a) == TRUE

\* `self.session` is truthy
HasSession(a) == self[a].session # "None"

\* the channel of assistant a carries requests and responses
Usable(a) == wire[a].channel = "open" /\ wire[a].handshake

-----------------------------------------------------------------------------
(* connect() and disconnect() *)

\* connect() up to `await self.*_context.__aenter__()`
ConnectCall(r, a) ==
    /\ CanStartAlone("connect", r, a)
    /\ co' = [co EXCEPT ![r] = [Start("connect", a) EXCEPT !.pc = "aenter"]]
    /\ self' = [self EXCEPT ![a].context = "context"]
    /\ wire' = [wire EXCEPT ![a] = NoWire]
    /\ UNCHANGED <<caller, server, envKey, handled>>

\* the channel is open: the session is created, up to `await self.session.initialize()`
AenterReturn(r) ==
    /\ co[r].pc = "aenter"
    /\ co' = [co EXCEPT ![r].pc = "initialize"]
    /\ self' = [self EXCEPT ![co[r].asst].session = "ClientSession"]
    /\ \E mute \in BOOLEAN :
          wire' = [wire EXCEPT ![co[r].asst] = [NoWire EXCEPT !.channel = "open", !.mute = mute]]
    /\ UNCHANGED <<caller, server, envKey, handled>>

\* the exception connect() lets out: client.py wraps it in RuntimeError
ConnectError(cls, e) == IF cls = CLAUDE THEN "RuntimeError" ELSE e

AenterRaise(r) ==
    /\ co[r].pc = "aenter"
    /\ co' = [co EXCEPT ![r] = Raised(@, ConnectError(ClassOf(r), "ConnectError"))]
    /\ UNCHANGED <<caller, server, envKey, self, wire, handled>>

\* the endpoint answered the handshake
InitializeReturn(r) ==
    /\ co[r].pc = "initialize"
    /\ wire[co[r].asst].channel = "open"
    /\ ~wire[co[r].asst].mute
    /\ co' = [co EXCEPT ![r] = Returned(@, None)]
    /\ wire' = [wire EXCEPT ![co[r].asst].handshake = TRUE]
    /\ UNCHANGED <<caller, server, envKey, self, handled>>

\* the endpoint answered with an error or closed the channel; initialize()
\* is awaited without a timeout, so a mute endpoint ends it in no way
InitializeRaise(r) ==
    /\ co[r].pc = "initialize"
    /\ ~wire[co[r].asst].mute
    /\ co' = [co EXCEPT ![r] = Raised(@, ConnectError(ClassOf(r), "McpError"))]
    /\ UNCHANGED <<caller, server, envKey, self, wire, handled>>

\* disconnect() up to `await self.*_context.__aexit__(None, None, None)`
DisconnectCall(r, a) ==
    /\ CanStartAlone("disconnect", r, a)
    /\ co' = [co EXCEPT ![r] = IF self[a].context # "None"
                               THEN [Start("disconnect", a) EXCEPT !.pc = "aexit"]
                               ELSE Returned(Start("disconnect", a), None)]
    /\ wire' = [wire EXCEPT ![a].exits =
                    IF self[a].context = "None" THEN @
                    ELSE IF @ = "none" THEN "once" ELSE "again"]
    /\ UNCHANGED <<caller, server, envKey, self, handled>>

\* the finally of client.py's disconnect(); the other two clients have none
Cleared(me) ==
    IF me.class = CLAUDE THEN [me EXCEPT !.context = "None", !.session = "None"] ELSE me

AexitReturn(r) ==
    /\ co[r].pc = "aexit"
    /\ co' = [co EXCEPT ![r] = Returned(@, None)]
    /\ self' = [self EXCEPT ![co[r].asst] = Cleared(@)]
    /\ wire' = [wire EXCEPT ![co[r].asst].channel = IF @ = "none" THEN @ ELSE "closed"]
    /\ UNCHANGED <<caller, server, envKey, handled>>

\* __aexit__ raised: `except Exception: pass`.  The context was left, its
\* streams carry nothing any more; how much of the channel was released is
\* not known
AexitRaise(r) ==
    /\ co[r].pc = "aexit"
    /\ co' = [co EXCEPT ![r] = Returned(@, None)]
    /\ self' = [self EXCEPT ![co[r].asst] = Cleared(@)]
    /\ wire' = [wire EXCEPT ![co[r].asst].channel = IF @ = "none" THEN @ ELSE "broken"]
    /\ UNCHANGED <<caller, server, envKey, handled>>

-----------------------------------------------------------------------------
(* assist() *)

\* assist() up to `await self.session.list_tools()`
AssistCall(r, a, query) ==
    /\ CanStart(r, a)
    /\ LET c == [Start("assist", a) EXCEPT !.query = query]
           me == self[a]
       IN IF ~HasSession(a)
          THEN /\ co' = [co EXCEPT ![r] = Raised(c, "RuntimeError")]
               /\ self' = self
          ELSE IF me.class = HTTP /\ ~me.openai /\ ~Truthy(envKey)
          THEN /\ co' = [co EXCEPT ![r] = Raised(c, "ValueError")]
               /\ self' = self
          ELSE /\ co' = [co EXCEPT ![r] = [c EXCEPT !.pc = "list_tools"]]
               /\ self' = [self EXCEPT ![a].openai = TRUE]
    /\ UNCHANGED <<caller, server, envKey, wire, handled>>

\* the state of the coroutine once the loop is over: the HTTP client sends
\* its follow-up request, the stdio clients join what they collected
Proceed(r, c) ==
    IF c.pc # "loop_done" THEN co' = [co EXCEPT ![r] = c]
    ELSE IF self[c.asst].class # HTTP THEN co' = [co EXCEPT ![r] = JoinFinalText(c)]
    ELSE \/ \E reply \in FinalReplies(caller) :
                co' = [co EXCEPT ![r] =
                         Returned([FollowUp(c) EXCEPT !.replies = Append(@, reply)],
                                  Or(reply.text, Str("No response")))]
         \/ co' = [co EXCEPT ![r] = ReasoningFailed(FollowUp(c))]

\* list_tools() returned: the tools are built, the conversation starts with
\* the query and the reasoning service is asked; its reply is processed up
\* to the next await
ListToolsReturn(r) ==
    /\ co[r].pc = "list_tools"
    /\ Usable(co[r].asst)
    /\ LET cls == ClassOf(r)
           tools == ToolsParam(cls, Registry(server))
           messages == <<UserMessage(co[r].query)>>
           c == [co[r] EXCEPT !.tools = tools, !.messages = messages,
                              !.requests = Append(@, Request(messages, TRUE, tools))]
       IN \/ \E reply \in Replies(cls, caller, co[r].query) :
                Proceed(r, AfterReply(cls, c, reply, HasSession(co[r].asst)))
          \/ co' = [co EXCEPT ![r] = ReasoningFailed(c)]
    /\ wire' = [wire EXCEPT ![co[r].asst].pending =
                    IF co'[r].pc = "call_tool" THEN @ \cup {r} ELSE @]
    /\ UNCHANGED <<caller, server, envKey, self, handled>>

ListToolsRaise(r) ==
    /\ co[r].pc = "list_tools"
    /\ co' = [co EXCEPT ![r] = Raised(@, "McpError")]
    /\ UNCHANGED <<caller, server, envKey, self, wire, handled>>

\* a bug: the server answers every request with the execution of the call of
\* the first coroutine
PendingCallOfFirst(r) ==
    IF co[1].calls # << >> THEN co[1].calls[Len(co[1].calls)] ELSE co[r].calls[Len(co[r].calls)]

\* the request of the call_tool coroutine r waits in
PendingCall(r) == co[r].calls[Len(co[r].calls)]

\* the server executed the tool and the result came back; a handler that
\* never returns leaves the request pending
CallToolReturn(r) ==
    /\ co[r].pc = "call_tool"
    /\ Usable(co[r].asst)
    /\ \E env \in EnvsFor(server, PendingCall(r).name) :
          LET call == PendingCall(r)
              result == Execute(server, call.name, call.arguments, env)
          IN /\ handled' = [name |-> call.name, arguments |-> call.arguments,
                            env |-> env, result |-> result]
             /\ IF result.hangs THEN co' = co
                ELSE Proceed(r, AfterResult(ClassOf(r), co[r], result, HasSession(co[r].asst)))
    /\ wire' = [wire EXCEPT ![co[r].asst].pending =
                    IF co'[r].pc = "call_tool" THEN @ ELSE @ \ {r}]
    /\ UNCHANGED <<caller, server, envKey, self>>

\* call_tool raised: the transport failed or timed out
CallToolRaise(r) ==
    /\ co[r].pc = "call_tool"
    /\ Proceed(r, AfterRaise(ClassOf(r), co[r], "McpError", HasSession(co[r].asst)))
    /\ wire' = [wire EXCEPT ![co[r].asst].pending =
                    IF co'[r].pc = "call_tool" THEN @ ELSE @ \ {r}]
    /\ UNCHANGED <<caller, server, envKey, self, handled>>

-----------------------------------------------------------------------------

Next ==
    \E r \in Slots :
        \/ \E a \in Assistants : ConnectCall(r, a)
        \/ AenterReturn(r)
        \/ AenterRaise(r)
        \/ InitializeReturn(r)
        \/ InitializeRaise(r)
        \/ \E a \in Assistants : DisconnectCall(r, a)
        \/ AexitReturn(r)
        \/ AexitRaise(r)
        \/ \E a \in Assistants, query \in QueriesOf(caller, r) : AssistCall(r, a, query)
        \/ ListToolsReturn(r)
        \/ ListToolsRaise(r)
        \/ CallToolReturn(r)
        \/ CallToolRaise(r)

Spec == Init /\ [][Next]_vars

SpecGather == InitGather /\ [][Next]_vars

SpecMain == InitMain /\ [][Next]_vars

\* a program that only constructs assistants
InitConstruct ==
    /\ caller = "constructor"
    /\ server \in Servers
    /\ envKey \in EnvValues
    /\ self = [a \in Assistants |-> Unbound]
    /\ co = [r \in Slots |-> Idle]
    /\ wire = [a \in Assistants |-> NoWire]
    /\ handled = NotHandled

\* `assistant = PRAssistant(server_script, api_key)`: the name is bound when
\* the constructor returns and keeps what it had when the constructor raises
Construct(r, a, cls, api_key) ==
    LET out == PRAssistantInit(cls, Str(server), api_key, envKey)
        c == [Start("__init__", a) EXCEPT !.cls = cls, !.api_key = api_key]
    IN /\ co' = [co EXCEPT ![r] = IF out.exc = "" THEN Returned(c, None)
                                  ELSE [Raised(c, out.exc) EXCEPT !.result = out.message]]
       /\ self' = [self EXCEPT ![a] = IF out.exc = "" THEN out.object ELSE @]
       /\ UNCHANGED <<caller, server, envKey, wire, handled>>

NextConstruct ==
    \E a \in Assistants, cls \in Classes : \E api_key \in ApiKeysOf(cls) : Construct(1, a, cls, api_key)

SpecConstruct == InitConstruct /\ [][NextConstruct]_vars

-----------------------------------------------------------------------------
(* Properties *)

AssistRuns == {r \in Slots : co[r].op = "assist"}

ClassOfRun(r) == self[co[r].asst].class

\* the intents of the first reply of run r
FirstIntents(r) == Intents(ClassOfRun(r), co[r].replies[1])

\* the entries of a conversation that hold a tool result / a tool intent
ToolResultEntries(messages) == {i \in 2..Len(messages) : messages[i].role = "user"}
IntentEntries(messages) == {i \in 1..Len(messages) : messages[i].role = "assistant"}

\* a reply that is a final text: a non-empty text and no tool intent
IsFinalText(reply) == Truthy(reply.text) /\ reply.tool_calls = << >>

\* the round trip of run r: one call, the final text returned, one tool
\* result in the conversation of the follow-up request
RoundTrip(r) ==
    /\ Len(co[r].calls) = 1
    /\ Len(co[r].replies) = 2
    /\ co[r].result = co[r].replies[2].text
    /\ Len(co[r].requests) = 2
    /\ Cardinality(ToolResultEntries(co[r].requests[2].messages)) = 1

\* the run returned, its first reply held exactly one tool intent and the
\* reasoning service answers the next request, if any, with a final text
OneIntentThenText(r) ==
    /\ co[r].pc = "returned"
    /\ Len(co[r].replies) >= 1
    /\ Len(FirstIntents(r)) = 1
    /\ Len(co[r].replies) >= 2 => IsFinalText(co[r].replies[2])

MaxRequests(cls) == IF cls = HTTP THEN 2 ELSE 1

CallFor(it) == [name |-> it.name, arguments |-> ArgumentsOf(it)]

\* the loop of run r is over: the run returned, or its follow-up request failed
RoundOver(r) == co[r].pc = "returned" \/ (co[r].pc = "raised" /\ co[r].exc = "APIError")

C4_AsClaimed == \A a \in Assistants : Cardinality(wire[a].pending) <= 1

\* the conversation ms pairs every intent entry with the result entry after it
Paired(ms) ==
    /\ \A i \in IntentEntries(ms) :
          /\ i + 1 \in ToolResultEntries(ms)
          /\ i + 2 <= Len(ms) => i + 2 \in IntentEntries(ms)
    /\ \A i \in ToolResultEntries(ms) : i - 1 \in IntentEntries(ms)

\* C5: every conversation sent to the reasoning service pairs each tool
\* intent in it with exactly one result entry, the result of that very call,
\* right after it; the follow-up conversation holds every intent of the
\* first reply; a round that failed sends nothing more.
C5_IntentsHaveResults ==
    \A r \in AssistRuns :
        /\ \A k \in 1..Len(co[r].requests) :
              LET ms == co[r].requests[k].messages
              IN /\ Paired(ms)
                 /\ k = 2 =>
                       /\ Len(ms) = 1 + 2 * Len(FirstIntents(r))
                       /\ \A j \in 1..Len(FirstIntents(r)) :
                             /\ ms[2 * j] = AssistantMessage(Called(co[r].calls[j].name,
                                                                    co[r].calls[j].arguments))
                             /\ ms[2 * j + 1] = UserMessage(co[r].outcomes[j].content)
        /\ co[r].pc = "raised" /\ co[r].exc \in {"McpError", "JSONDecodeError"} =>
              Len(co[r].requests) <= 1

C5_Witness ==
    \E r \in AssistRuns :
        /\ Len(co[r].requests) = 2
        /\ Cardinality(IntentEntries(co[r].requests[2].messages)) = 2
        /\ co[r].outcomes[1].content # co[r].outcomes[2].content

\* the name, description and schema a tools entry carries
Triple(cls, tool) ==
    IF cls = CLAUDE
    THEN <<tool.name, tool.description, tool.input_schema>>
    ELSE <<tool.function.name, tool.function.description, tool.function.parameters>>

\* a request carries every descriptor of the registry, in its order
CarriesAllTools(cls, request) ==
    /\ request.withTools
    /\ Len(request.tools) = Len(Registry(server))
    /\ \A i \in 1..Len(request.tools) :
          Triple(cls, request.tools[i]) =
              <<Registry(server)[i].name, Registry(server)[i].description,
                Registry(server)[i].inputSchema>>

PlainText(cls, reply) ==
    IF cls = CLAUDE
    THEN Join([i \in 1..Len(reply.parts) |-> reply.parts[i].text])
    ELSE reply.text

\* C7: when the reply holds text and no tool intent, assist() is Finalized
\* at once: no call_tool, no further reasoning request, exactly that text
\* returned.
C7_PlainTextFinalizes ==
    \A r \in AssistRuns :
        (/\ Len(co[r].replies) >= 1
         /\ FirstIntents(r) = << >>
         /\ Truthy(PlainText(ClassOfRun(r), co[r].replies[1]))) =>
            /\ co[r].pc = "returned"
            /\ co[r].calls = << >>
            /\ Len(co[r].requests) = 1
            /\ co[r].result = PlainText(ClassOfRun(r), co[r].replies[1])

C7_Witness ==
    \E r \in AssistRuns :
        /\ co[r].pc = "returned"
        /\ Len(co[r].replies) = 1
        /\ FirstIntents(r) = << >>
        /\ co[r].result = FinalText

\* C8 as claimed: a call_tool that raises never aborts assist().
C8_AsClaimed ==
    \A r \in AssistRuns :
        ~(co[r].pc = "raised" /\ co[r].exc = "McpError" /\ co[r].calls # << >>)

\* a reasoning-service call of run r failed
ReasoningCallFailed(r) == Finished(co[r]) /\ Len(co[r].requests) > Len(co[r].replies)

C10_AsClaimed ==
    handled.result.ran /\ handled.env.kind = "fault" => handled.result.isError

-----------------------------------------------------------------------------

\* the keys of the mapping run_tests of create_server returns
RunTestsKeys == {"returncode", "failures", "raw", "success"}

\* C11: for every argument mapping the schema accepts, the execution of a
\* tool of create_server ends in a result, never in an exception: on every
\* path, the failures of the collaborators included, the handler returns and
\* the payload has the declared shape: search_repo a list of strings,
\* run_tests a mapping with the keys returncode, failures, raw and success,
\* generate_release_notes a string.  (A handler of mcp_server.py may raise;
\* the executor hands that on as a failure result.)
C11_DeclaredShape ==
    handled.result.ran /\ ~handled.result.hangs =>
        IF handled.result.isError THEN server = "mcp_server.py"
        ELSE /\ handled.result.shape = DeclaredShape(handled.name)
             /\ handled.result.payload.shape = DeclaredShape(handled.name)
             /\ server = "server.py" /\ handled.name = "run_tests" =>
                    handled.result.payload.dict.keys = RunTestsKeys
             /\ handled.name = "search_repo" =>
                    handled.result.content = handled.result.payload.list

C11_Witness ==
    /\ server = "server.py"
    /\ handled.result.ran
    /\ handled.name = "run_tests"
    /\ handled.env.what = "FileNotFoundError"
    /\ handled.result.payload.dict.keys = RunTestsKeys
    /\ handled.result.payload.dict.returncode = -1

\* the arguments miss a field the tool requires / hold a field it does not declare
MissesRequired(srv, name, arguments) ==
    \E k \in DOMAIN Parameters(srv, name) : Parameters(srv, name)[k] /\ k \notin Keys(arguments)
HoldsUndeclared(srv, name, arguments) ==
    \E k \in Keys(arguments) : k \notin DOMAIN Parameters(srv, name)

\* C12 as claimed: a call of a registered tool whose arguments miss a
\* required field or hold a field the tool does not declare fails and the
\* handler is not invoked.
C12_AsClaimed ==
    (/\ Registered(server, handled.name)
     /\ \/ MissesRequired(server, handled.name, handled.arguments)
        \/ HoldsUndeclared(server, handled.name, handled.arguments)) =>
        handled.result.isError /\ ~handled.result.ran

\* the tool names run r got from list_tools()
DiscoveredNames(r) ==
    {Triple(ClassOfRun(r), co[r].tools[i])[1] : i \in 1..Len(co[r].tools)}

DiscoveredOrder(r) == [i \in 1..Len(co[r].tools) |-> Triple(ClassOfRun(r), co[r].tools[i])[1]]

MainExited == caller = "main" /\ Finished(co[1]) /\ MainStep(co[1]) = "exit"

\* the channel of assistant a was opened / __aexit__ was entered on its context
Opened(a) == wire[a].channel # "none"
Released(a) == wire[a].exits # "none"

\* C15: when main() is over and connect() had opened the channel, the
\* channel was released, by one __aexit__ of its context: after assist()
\* returned, after assist() raised, and after connect() failed in the
\* handshake that follows the opening of the channel.
C15_ChannelReleased ==
    MainExited =>
        \A a \in Assistants :
            Opened(a) => /\ wire[a].exits = "once"
                         /\ wire[a].channel \in {"closed", "broken"}

\* connect() failed in the handshake and the channel was released
C15_Witness ==
    /\ MainExited
    /\ wire[1].channel = "closed"
    /\ ~wire[1].handshake
    /\ Released(1)

\* C16 as claimed: a disconnect() that follows a disconnect() performs no
\* second release operation on the channel.
C16_AsClaimed == \A a \in Assistants : Opened(a) => wire[a].exits # "again"

\* C17 as claimed: a connect() that waits for the handshake of an endpoint
\* that never answers does not wait forever: a step that makes it fail (the
\* timeout elapsing) is possible.
C17_AsClaimed ==
    \A r \in Slots :
        co[r].op = "connect" /\ co[r].pc = "initialize" /\ wire[co[r].asst].mute =>
            ENABLED InitializeRaise(r)

\* the structured timeout result of run_tests
TimeoutResult ==
    [keys |-> {"returncode", "failures", "raw", "success"}, returncode |-> -1,
     failures |-> <<Str("Test execution timed out after 5 minutes")>>,
     raw |-> << >>, success |-> FALSE]

\* C18 as claimed: whenever the test subprocess of a run_tests does not
\* finish within the bound, the tool returns the structured timeout result
\* (returncode -1, success false, a failures entry saying it timed out,
\* empty raw): it neither hangs nor raises.
C18_AsClaimed ==
    handled.name = "run_tests" /\ handled.env.what = "TimeoutExpired" =>
        /\ ~handled.result.hangs
        /\ ~handled.result.isError
        /\ handled.result.payload = DictPayload(TimeoutResult)

\* what the execution of the call can give back as content
ResultsOf(call) ==
    {ResultContent(Execute(server, call.name, call.arguments, env)) :
        env \in EnvsFor(server, call.name)}

\* the conversation of the HTTP client built from the query, the calls and
\* the results of run r alone
OwnConversation(r) ==
    [i \in 1..(1 + 2 * Len(co[r].outcomes)) |->
        IF i = 1 THEN UserMessage(co[r].query)
        ELSE IF i % 2 = 0
        THEN AssistantMessage(Called(co[r].calls[i \div 2].name, co[r].calls[i \div 2].arguments))
        ELSE UserMessage(co[r].outcomes[i \div 2].content)]

\* the pieces of an answer run r can build from its own replies and results
OwnBlocks(r) ==
    UNION { {co[r].replies[k].text} \cup
            {co[r].replies[k].parts[j].text : j \in 1..Len(co[r].replies[k].parts)} :
                k \in 1..Len(co[r].replies) }
    \cup UNION { {ToolBlock(co[r].calls[k].name, co[r].outcomes[k].content),
                  ResultBlock(co[r].calls[k].name, co[r].outcomes[k].content),
                  FailedBlock(co[r].calls[k].name, "McpError")} :
                    k \in 1..Len(co[r].outcomes) }

\* C19: in every interleaving of assist() runs, the conversation and the
\* answer of a run hold only what its own query, its own replies of the
\* reasoning service and the results of its own tool calls produced.
C19_RunsShareNothing ==
    \A r \in AssistRuns :
        LET c == co[r]
            cls == ClassOfRun(r)
        IN /\ \A k \in 1..Len(c.requests) : c.requests[k].messages[1] = UserMessage(c.query)
           /\ \A k \in 1..Len(c.calls) : c.calls[k] = CallFor(FirstIntents(r)[k])
           /\ \A k \in 1..Len(c.outcomes) :
                 c.outcomes[k].tag # "raised" => c.outcomes[k].content \in ResultsOf(c.calls[k])
           /\ c.messages # << >> =>
                 c.messages = IF cls = HTTP THEN OwnConversation(r) ELSE <<UserMessage(c.query)>>
           /\ \A k \in 1..Len(c.final_text) : c.final_text[k] \in OwnBlocks(r)
           /\ c.pc = "returned" =>
                 c.result = IF cls = HTTP
                            THEN Or(c.replies[Len(c.replies)].text, Str("No response"))
                            ELSE Join(c.final_text)

\* two runs on two assistants, one answered while the call of the other is pending
C19_Witness ==
    /\ co[1].op = "assist" /\ co[2].op = "assist"
    /\ co[1].asst # co[2].asst
    /\ co[1].pc = "returned" /\ Len(co[1].outcomes) = 1
    /\ co[2].pc = "call_tool"
    /\ co[1].calls[1] # co[2].calls[1]
    /\ handled.name = co[1].calls[1].name

\* s is the beginning of t
IsPrefix(s, t) == Len(s) <= Len(t) /\ SubSeq(t, 1, Len(s)) = s

\* C20: the conversation of a run starts as exactly the user request; no
\* step of assist() removes, reorders or rewrites an entry that is in it;
\* the conversation sent with a reasoning request that follows a tool round
\* begins with the conversation of the request before it and is strictly
\* longer.
C20_ConversationAppendOnly ==
    [][\A r \in Slots :
          co'[r].op = "assist" /\ co'[r].messages # << >> =>
              /\ co'[r].messages[1] = UserMessage(co'[r].query)
              /\ co[r].messages = << >> => co'[r].messages = <<UserMessage(co'[r].query)>>
              /\ ~Finished(co[r]) /\ co[r].messages # << >> =>
                    IsPrefix(co[r].messages, co'[r].messages)
              /\ \A k \in 1..Len(co'[r].requests) :
                    IF k = 1
                    THEN co'[r].requests[k].messages = <<UserMessage(co'[r].query)>>
                    ELSE /\ IsPrefix(co'[r].requests[k - 1].messages, co'[r].requests[k].messages)
                         /\ Len(co'[r].requests[k].messages) > Len(co'[r].requests[k - 1].messages)
      ]_vars

C20_Witness ==
    \E r \in AssistRuns :
        /\ ClassOfRun(r) = HTTP
        /\ Len(co[r].requests) = 2
        /\ Len(co[r].requests[2].messages) = 5
        /\ co[r].requests[2].messages[1] = UserMessage(co[r].query)

\* run r issued nothing: no list_tools, no reasoning request, no call_tool
IssuedNothing(r) ==
    /\ co[r].tools = << >>
    /\ co[r].messages = << >>
    /\ co[r].requests = << >>
    /\ co[r].replies = << >>
    /\ co[r].calls = << >>
    /\ wire[co[r].asst].pending = {}

\* C21: an assist() on an assistant without session raises RuntimeError
\* before anything is asked of the transport or of the reasoning service;
\* and only the missing session makes assist() raise RuntimeError.
C21_NoSessionNoCall ==
    \A r \in AssistRuns :
        /\ self[co[r].asst].session = "None" =>
              /\ co[r].pc = "raised"
              /\ co[r].exc = "RuntimeError"
              /\ IssuedNothing(r)
        /\ co[r].pc = "raised" /\ co[r].exc = "RuntimeError" => self[co[r].asst].session = "None"

\* assist() on an assistant connect() was never called on
C21_Witness ==
    \E r \in AssistRuns :
        /\ self[co[r].asst].session = "None"
        /\ self[co[r].asst].context = "None"
        /\ co[r].pc = "raised"
        /\ wire[co[r].asst].channel = "none"

ConstructRuns == {r \in Slots : co[r].op = "__init__" /\ co[r].cls = CLAUDE}

\* the key the Anthropic client's constructor is left with
KeyAvailable(r) == Truthy(co[r].api_key) \/ Truthy(envKey)

\* C22: PRAssistant(server_script, api_key) raises ValueError naming
\* ANTHROPIC_API_KEY exactly when neither the parameter nor the environment
\* holds a non-empty key; otherwise the object keeps the parameter's key if
\* there is one, the environment's if not, and server_script as given.
C22_KeyRequired ==
    \A r \in ConstructRuns :
        /\ co[r].pc = "raised" <=> ~KeyAvailable(r)
        /\ co[r].pc = "returned" <=> KeyAvailable(r)
        /\ co[r].pc = "raised" =>
              /\ co[r].exc = "ValueError"
              /\ \E j \in DOMAIN co[r].result : co[r].result[j] = "ANTHROPIC_API_KEY"
        /\ co[r].pc = "returned" =>
              LET me == self[co[r].asst]
              IN /\ me.class = CLAUDE
                 /\ me.api_key = (IF Truthy(co[r].api_key) THEN co[r].api_key ELSE envKey)
                 /\ me.server_script = Str(server)
                 /\ me.session = "None"

\* both a parameter and an environment key are there and the parameter won
C22_Witness ==
    \E r \in ConstructRuns :
        /\ co[r].pc = "returned"
        /\ Truthy(co[r].api_key)
        /\ Truthy(envKey)
        /\ self[co[r].asst].api_key = Str("sk-param")

\* the HTTP assistant of slot r runs where no key is set
Keyless(r) == ClassOf(r) = HTTP /\ ~Truthy(envKey)

\* slot r holds an assist() that the missing key stopped
KeyRefused(c) == c.op = "assist" /\ c.pc = "raised" /\ c.exc = "ValueError"

\* what holds in every state of a keyless HTTP assistant: it was constructed,
\* connect() and disconnect() do not ask for a key, an assist() on a session
\* raises ValueError having issued nothing, and no reasoning client is kept
C23_Keyless ==
    /\ \A r \in Slots : KeyRefused(co[r]) => Keyless(r) /\ self[co[r].asst].session # "None"
    /\ \A r \in Slots : Keyless(r) =>
          /\ PRAssistantInit(HTTP, Str(server), None, envKey).exc = ""
          /\ ~self[co[r].asst].openai
          /\ co[r].op \in {"connect", "disconnect"} => co[r].exc # "ValueError"
          /\ co[r].op = "connect" /\ co[r].pc = "returned" => Usable(co[r].asst)
          /\ co[r].op = "assist" /\ self[co[r].asst].session # "None" =>
                KeyRefused(co[r]) /\ IssuedNothing(r)

\* C23: the HTTP client looks its key up only inside assist(): without a key
\* it constructs, connects and disconnects, and an assist() on a connected
\* assistant raises ValueError before list_tools, before any reasoning
\* request and before any call_tool, leaving assistant and channel as they were.
C23_KeyOnlyInAssist ==
    /\ []C23_Keyless
    /\ [][\A r \in Slots : co'[r] # co[r] /\ KeyRefused(co'[r]) => self' = self /\ wire' = wire]_vars

\* a keyless HTTP assistant connected, and its assist() was refused for the key
C23_Witness ==
    \E r \in Slots :
        /\ Keyless(r)
        /\ KeyRefused(co[r])
        /\ Usable(co[r].asst)
        /\ IssuedNothing(r)

\* the place of part j of a response among its tool intents
IntentIndex(parts, j) == Cardinality({k \in 1..j : parts[k].type = "tool_use"})

\* the piece of the answer that part j of the response of run r stands for
Piece(r, j) ==
    LET part == co[r].reply.parts[j]
        outcome == co[r].outcomes[IntentIndex(co[r].reply.parts, j)]
    IN CASE part.type = "text" -> part.text
         [] outcome.tag = "raised" -> FailedBlock(part.name, outcome.content[1])
         [] OTHER -> ToolBlock(part.name, outcome.content)

\* C24: the answer of the Anthropic-backed assist() is the concatenation, in
\* the order of the response, of one piece per part: the text of a text
\* part, a "[Tool: name]" block with the result of a call that returned, a
\* "[Tool name failed: reason]" block for a call that raised.
C24_OnePiecePerPart ==
    \A r \in AssistRuns :
        ClassOfRun(r) = CLAUDE /\ co[r].pc = "returned" =>
            /\ Len(co[r].outcomes) = Len(FirstIntents(r))
            /\ co[r].result = Join([j \in 1..Len(co[r].reply.parts) |-> Piece(r, j)])

\* a response of a tool intent between or beside other parts, where one
\* call raised and the run returned
C24_Witness ==
    \E r \in AssistRuns :
        /\ ClassOfRun(r) = CLAUDE
        /\ co[r].pc = "returned"
        /\ Len(co[r].reply.parts) >= 2
        /\ \E j \in DOMAIN co[r].reply.parts : co[r].reply.parts[j].type = "text"
        /\ \E k \in DOMAIN co[r].outcomes : co[r].outcomes[k].tag = "raised"

\* the descriptors list_tools() returns, each as its name, description and schema
Discovery == [i \in 1..Len(Registry(server)) |->
                <<Registry(server)[i].name, Registry(server)[i].description,
                  Registry(server)[i].inputSchema>>]

\* the descriptors a request carries, each as its name, description and schema
Sent(cls, request) == [i \in 1..Len(request.tools) |-> Triple(cls, request.tools[i])]

\* C25: in a run of assist() nothing is asked of the reasoning service while
\* list_tools is awaited, no call_tool is issued before the first reasoning
\* request was answered, and the descriptors of the first request are those
\* list_tools returned, in its order, each as name, description and schema.
C25_DiscoverAskCall ==
    \A r \in AssistRuns :
        /\ co[r].pc = "list_tools" =>
              co[r].requests = << >> /\ co[r].replies = << >> /\ co[r].calls = << >>
        /\ co[r].requests # << >> =>
              /\ co[r].pc # "list_tools"
              /\ co[r].requests[1].withTools
              /\ Sent(ClassOfRun(r), co[r].requests[1]) = Discovery
        /\ co[r].calls # << >> \/ co[r].pc = "call_tool" =>
              /\ Len(co[r].requests) >= 1
              /\ Len(co[r].replies) >= 1
              /\ Len(co[r].calls) <= Len(FirstIntents(r))

\* a run that discovered, asked and is calling its second tool
C25_Witness ==
    \E r \in AssistRuns :
        /\ co[r].pc = "call_tool"
        /\ Len(co[r].calls) = 2
        /\ Len(co[r].replies) = 1
        /\ Len(Sent(ClassOfRun(r), co[r].requests[1])) = 3

\* the requests and calls of every run stay within their bounds
C26_Bounded ==
    \A r \in AssistRuns :
        /\ Len(co[r].requests) <= MaxRequests(ClassOfRun(r))
        /\ Len(co[r].replies) >= 1 => Len(co[r].calls) <= Len(FirstIntents(r))
        /\ co[r].replies = << >> => co[r].calls = << >>
        /\ co[r].pc = "returned" /\ ClassOfRun(r) # HTTP => Len(co[r].requests) = 1

\* the awaits that are left to run c at most: none once it ended, one per
\* item of the response not yet passed while it awaits a call_tool
AwaitsLeft(cls, c) ==
    IF Finished(c) THEN 0 ELSE 1 + Len(Items(cls, c.reply)) - c.i

\* a step of run r: an external call it awaited returned or failed
Resumed(r) == co[r].op = "assist" /\ ~Finished(co[r]) /\ co'[r] # co[r]

\* C26: every run of assist() ends once its external calls return or fail:
\* discovery is awaited once, each call_tool that returns or fails takes the
\* run to a later item of the first response or to its end, and the run
\* sends at most two reasoning requests (HTTP client) or exactly one (stdio
\* clients) and at most one call_tool per intent of the first response.
C26_Terminates ==
    [][/\ C26_Bounded'
       /\ \A r \in Slots :
            Resumed(r) =>
                /\ co'[r].op = "assist" /\ co'[r].pc \in {"call_tool", "returned", "raised"}
                /\ co[r].pc = "call_tool" =>
                      AwaitsLeft(ClassOf(r), co'[r]) < AwaitsLeft(ClassOf(r), co[r])
                /\ AwaitsLeft(ClassOf(r), co'[r]) \in 0..Len(Items(ClassOf(r), co'[r].reply))]_vars

\* a run that ended after two calls, one of which had raised
C26_Witness ==
    \E r \in AssistRuns :
        /\ co[r].pc = "returned"
        /\ Len(co[r].calls) = 2
        /\ Len(FirstIntents(r)) = 2
        /\ \E k \in DOMAIN co[r].outcomes : co[r].outcomes[k].tag = "raised"

\* C27 as claimed: the session is set only by a connect() that completed:
\* after a connect() that raised the session is absent, and an assist() on
\* an assistant whose handshake never completed is rejected by the
\* not-connected guard.
C27_AsClaimed ==
    /\ \A r \in Slots :
          co[r].op = "connect" /\ co[r].pc = "raised" => self[co[r].asst].session = "None"
    /\ \A r \in AssistRuns :
          ~wire[co[r].asst].handshake /\ wire[co[r].asst].exits = "none" =>
              co[r].pc = "raised" /\ co[r].exc = "RuntimeError"

\* C28 as claimed: a disconnect() of an opened channel that returned, whether
\* or not the release failed, leaves session and context cleared.
C28_AsClaimed ==
    \A r \in Slots :
        co[r].op = "disconnect" /\ co[r].pc = "returned" /\ Opened(co[r].asst) =>
            /\ self[co[r].asst].session = "None"
            /\ self[co[r].asst].context = "None"

====
